---- MODULE Spec2Model ----
(***************************************************************************)
(* django-admin-flexlist: the per-user JSON preference document, the       *)
(* reconciliation of stored preference entries against the admin's         *)
(* authoritative field / app / model list, and the deep-merge update.      *)
(*                                                                         *)
(* JSON values are tagged records [k |-> kind, v |-> payload]:             *)
(*   "obj"  : v is a function from keys (strings) to JSON values           *)
(*   "list" : v is a sequence of JSON values                               *)
(*   "str"  : v is a string      "num" : v is an integer                   *)
(*   "bool" : v is a BOOLEAN     "null": v is the empty sequence           *)
(* The stored document is a tree (it is loaded from a JSON column), so a   *)
(* node's identity is its key path from the root.                          *)
(***************************************************************************)
EXTENDS Integers, Sequences, FiniteSets, TLC

\* ------------------------------------------------------------------ bounds
MaxLen == 2        \* longest posted list
MaxRequests == 2   \* requests served in one behaviour

\* ------------------------------------------------------------- JSON values
Str(s) == [k |-> "str", v |-> s]
Num(n) == [k |-> "num", v |-> n]
Bool(b) == [k |-> "bool", v |-> b]
Null == [k |-> "null", v |-> <<>>]
Lst(s) == [k |-> "list", v |-> s]
Obj(f) == [k |-> "obj", v |-> f]
EmptyObj == Obj(<<>>)

IsDict(x) == x.k = "obj"
IsList(x) == x.k = "list"
\* Python can hash None, bool, int and str; a list or a dict is unhashable.
IsHashable(x) == x.k \notin {"list", "obj"}

\* d.get(key) on a dict: the value, or None when the key is absent.
DictGet(d, key) == IF key \in DOMAIN d.v THEN d.v[key] ELSE Null

\* Sequence helpers.
RECURSIVE SeqMap(_, _)
SeqMap(Op(_), s) ==
  IF s = <<>> THEN <<>> ELSE <<Op(Head(s))>> \o SeqMap(Op, Tail(s))

RECURSIVE SeqFilter(_, _)
SeqFilter(Test(_), s) ==
  IF s = <<>> THEN <<>>
  ELSE (IF Test(Head(s)) THEN <<Head(s)>> ELSE <<>>) \o SeqFilter(Test, Tail(s))

Range(s) == {s[i] : i \in DOMAIN s}
SeqsUpTo(S, n) == UNION {[1..m -> S] : m \in 0..n}
ButLast(s) == SubSeq(s, 1, Len(s) - 1)
Last(s) == s[Len(s)]

\* ------------------------------------------------------------------ utils
FieldKeys == {"name", "description", "visible"}

\* FlexListField(name=..., description=..., visible=...): a plain dataclass,
\* the constructor stores whatever values it is given.
FlexListField(name, description, visible) ==
  [name |-> name, description |-> description, visible |-> visible]

\* FlexListField(**x) raises TypeError when x is not a mapping, when a
\* required keyword is missing and when an unexpected keyword is present.
ConstructRaises(x) == ~IsDict(x) \/ DOMAIN x.v # FieldKeys

\* FlexListField(**x) for an x that constructs.
ConstructField(x) == FlexListField(x.v["name"], x.v["description"], x.v["visible"])

\* dataclasses.asdict(field)
asdict(field) ==
  Obj([key \in FieldKeys |->
        CASE key = "name" -> field.name
          [] key = "description" -> field.description
          [] OTHER -> field.visible])

get_dict_from_value(value) == IF IsDict(value) THEN value ELSE EmptyObj

get_list_from_value(value) == IF IsList(value) THEN value ELSE Lst(<<>>)

\* try: result.append(FlexListField(**x))  except TypeError: continue
FieldsFromElements(elems) ==
  LET Keeps(x) == ~ConstructRaises(x)
  IN SeqMap(ConstructField, SeqFilter(Keeps, elems))

make_list_fields_from_data(data) ==
  FieldsFromElements(SeqMap(get_dict_from_value, get_list_from_value(data).v))

make_payload_from_list_fields(list_fields) == Lst(SeqMap(asdict, list_fields))

\* Variant: the list is written under the last key of the path alone.
make_update_payload_from_list_fields_Flat(list_fields, path) ==
  Obj(Last(path) :> make_payload_from_list_fields(list_fields))

RECURSIVE make_update_payload_from_list_fields(_, _)
make_update_payload_from_list_fields(list_fields, path) ==
  IF Len(path) = 1
  THEN Obj(path[1] :> make_payload_from_list_fields(list_fields))
  ELSE Obj(path[1] :> make_update_payload_from_list_fields(list_fields, Tail(path)))

\* Variant: d1.update(d2), no recursion into nested dicts.
deep_update_dict_Shallow(d1, d2, seen, here) ==
  Obj([key \in (DOMAIN d1.v) \cup (DOMAIN d2.v) |->
        IF key \in DOMAIN d2.v THEN d2.v[key] ELSE d1.v[key]])

\* Variant: d1.setdefault(key, value) in place of the assignment.
RECURSIVE deep_update_dict_SetDefault(_, _, _, _)
deep_update_dict_SetDefault(d1, d2, seen, here) ==
  IF here \in seen THEN d1
  ELSE Obj([key \in (DOMAIN d1.v) \cup (DOMAIN d2.v) |->
         IF key \notin DOMAIN d2.v THEN d1.v[key]
         ELSE IF IsDict(d2.v[key]) /\ key \in DOMAIN d1.v /\ IsDict(d1.v[key])
              THEN deep_update_dict_SetDefault(d1.v[key], d2.v[key],
                                               seen \cup {here}, Append(here, key))
              ELSE IF key \in DOMAIN d1.v THEN d1.v[key] ELSE d2.v[key]])

\* Variant: only keys the target already has are updated.
RECURSIVE deep_update_dict_ExistingKeysOnly(_, _, _, _)
deep_update_dict_ExistingKeysOnly(d1, d2, seen, here) ==
  IF here \in seen THEN d1
  ELSE Obj([key \in DOMAIN d1.v |->
         IF key \notin DOMAIN d2.v THEN d1.v[key]
         ELSE IF IsDict(d2.v[key]) /\ IsDict(d1.v[key])
              THEN deep_update_dict_ExistingKeysOnly(d1.v[key], d2.v[key],
                                                     seen \cup {here}, Append(here, key))
              ELSE d2.v[key]])

\* Variant: a list under a key of both dicts is extended, not replaced.
RECURSIVE deep_update_dict_ExtendLists(_, _, _, _)
deep_update_dict_ExtendLists(d1, d2, seen, here) ==
  IF here \in seen THEN d1
  ELSE Obj([key \in (DOMAIN d1.v) \cup (DOMAIN d2.v) |->
         IF key \notin DOMAIN d2.v THEN d1.v[key]
         ELSE IF IsDict(d2.v[key]) /\ key \in DOMAIN d1.v /\ IsDict(d1.v[key])
              THEN deep_update_dict_ExtendLists(d1.v[key], d2.v[key],
                                                seen \cup {here}, Append(here, key))
              ELSE IF key \in DOMAIN d1.v /\ d1.v[key].k = "list" /\ d2.v[key].k = "list"
                   THEN Lst(d1.v[key].v \o d2.v[key].v)
                   ELSE d2.v[key]])

\* deep_update_dict(d1, d2, seen) for dicts d1 and d2; here is the identity
\* of d1 (its key path in the target tree) and seen the identities visited.
\* The result is d1 after the in-place update.
RECURSIVE deep_update_dict(_, _, _, _)
deep_update_dict(d1, d2, seen, here) ==
  IF here \in seen THEN d1
  ELSE Obj([key \in (DOMAIN d1.v) \cup (DOMAIN d2.v) |->
         IF key \notin DOMAIN d2.v THEN d1.v[key]
         ELSE IF IsDict(d2.v[key]) /\ key \in DOMAIN d1.v /\ IsDict(d1.v[key])
              THEN deep_update_dict(d1.v[key], d2.v[key],
                                    seen \cup {here}, Append(here, key))
              ELSE d2.v[key]])

\* ----------------------------------------------------------------- stores
\* The walk of get_config_list_fields down path[:-1].
RECURSIVE WalkConfig(_, _)
WalkConfig(config, keys) ==
  IF keys = <<>> THEN config
  ELSE WalkConfig(get_dict_from_value(DictGet(config, Head(keys))), Tail(keys))

get_config_list_fields(flexlist_config, path) ==
  IF path = <<>> THEN <<>>
  ELSE LET config == WalkConfig(get_dict_from_value(flexlist_config), ButLast(path))
           list_dict_fields == get_list_from_value(DictGet(config, Last(path)))
       IN FieldsFromElements(list_dict_fields.v)

\* utils.deep_update_dict(flexlist_config.config, payload) raises TypeError
\* on the first item assignment when the stored root is not a dict.
UpdateConfigRaises(flexlist_config) == ~IsDict(flexlist_config)

update_config(flexlist_config, payload) ==
  deep_update_dict(flexlist_config, payload, {}, <<>>)

\* ------------------------------------------------------- host admin site
\* What the host framework answers on a request.  An ordered dict is a
\* sequence of [key, value] records with distinct keys, in insertion order.
FieldNames == {"title", "author"}

\* get_field_description for the fields of the registered model.
FieldDescription == [n \in FieldNames |-> IF n = "title" THEN "Title" ELSE "Author"]

\* The values model_admin._daf_original_get_list_display(request) may return.
ListDisplays ==
  {<<>>, <<"author">>, <<"title", "author">>, <<"title", "author", "title">>}

Model(object_name, name) == [object_name |-> object_name, name |-> name]
App(app_label, name, models) == [app_label |-> app_label, name |-> name, models |-> models]

Post == Model("Post", "Posts")
Tag == Model("Tag", "Tags")
User == Model("User", "Users")

\* The app whose model list the requests address.
RequestedApps == {"blog"}

\* The values admin_site._daf_original_get_app_list(request) may return: the
\* apps and models the user may see, each list sorted by display name.
BlogApp(models) == App("blog", "Blog", models)
UsersApp == App("users", "Users", <<User>>)
AppLists ==
  {<<>>, <<BlogApp(<<Post, Tag>>)>>, <<BlogApp(<<Tag>>), UsersApp>>,
   <<BlogApp(<<Post, Tag>>), UsersApp>>}

\* admin_site._daf_original_get_app_list(request, app_label)
AppListFor(app_list, app_label) ==
  LET IsLabel(app) == app.app_label = app_label IN SeqFilter(IsLabel, app_list)

Keys(lookup) == {lookup[i].key : i \in DOMAIN lookup}
Lookup(lookup, key) == (CHOOSE i \in DOMAIN lookup : lookup[i].key = key)

\* The dict comprehension {key: value for ... in items} over the sequence of
\* its [key, value] pairs: a repeated key keeps its first position and takes
\* the last value.
RECURSIVE DictComprehension(_)
DictComprehension(pairs) ==
  IF pairs = <<>> THEN <<>>
  ELSE LET rest == DictComprehension(ButLast(pairs))
           x == Last(pairs)
       IN IF x.key \in Keys(rest)
          THEN [rest EXCEPT ![Lookup(rest, x.key)].value = x.value]
          ELSE Append(rest, x)

\* ----------------------------------------------------------- reconciliation
\* A result of a service call: the returned list, or the raised error.
Returned(list) == [raised |-> FALSE, out |-> list]
Raised == [raised |-> TRUE, out |-> <<>>]

\* The authoritative ordered map name -> description behind a lookup whose
\* values are app or model dicts: the description of an item is item["name"].
Authoritative(lookup) ==
  [i \in DOMAIN lookup |-> [key |-> lookup[i].key, value |-> lookup[i].value.name]]

\* `field.name not in lookup` hashes field.name: TypeError for a list or dict.
MembershipRaises(fields) == \E i \in DOMAIN fields : ~IsHashable(fields[i].name)

NameInLookup(name, lookup) == name.k = "str" /\ name.v \in Keys(lookup)

\* Variant: the first loop without the assignment to field.description.
CarriedOver_KeepDescription(fields, lookup) ==
  LET Present(field) == NameInLookup(field.name, lookup)
  IN SeqFilter(Present, fields)

\* First loop: the stored fields whose name is in the lookup, in stored order,
\* each with the description of the original item.
CarriedOver(fields, lookup) ==
  LET Present(field) == NameInLookup(field.name, lookup)
      Redescribe(field) ==
        [field EXCEPT !.description = Str(lookup[Lookup(lookup, field.name.v)].value)]
  IN SeqMap(Redescribe, SeqFilter(Present, fields))

\* seen_fields after the first loop.
SeenNames(fields, lookup) ==
  {fields[i].name.v : i \in {j \in DOMAIN fields : NameInLookup(fields[j].name, lookup)}}

\* Variant: the test of the second loop inverted (`not in seen_fields`).
AppendedNew_Inverted(lookup, seen) ==
  LET IsSeen(item) == item.key \in seen
      NewField(item) == FlexListField(Str(item.key), Str(item.value), Bool(TRUE))
  IN SeqMap(NewField, SeqFilter(IsSeen, lookup))

\* Variant: new items appended with visible=False.
AppendedNew_Hidden(lookup, seen) ==
  LET Unseen(item) == item.key \notin seen
      NewField(item) == FlexListField(Str(item.key), Str(item.value), Bool(FALSE))
  IN SeqMap(NewField, SeqFilter(Unseen, lookup))

\* Variant: the second loop without the test of seen_fields.
AppendedNew_NoSeenCheck(lookup, seen) ==
  LET NewField(item) == FlexListField(Str(item.key), Str(item.value), Bool(TRUE))
  IN SeqMap(NewField, lookup)

\* Second loop: the items of the lookup not seen, in lookup order, visible.
AppendedNew(lookup, seen) ==
  LET Unseen(item) == item.key \notin seen
      NewField(item) == FlexListField(Str(item.key), Str(item.value), Bool(TRUE))
  IN SeqMap(NewField, SeqFilter(Unseen, lookup))

\* Variant: the two loops in the other order.
MergeFields_NewFirst(fields, lookup) ==
  IF MembershipRaises(fields) THEN Raised
  ELSE Returned(AppendedNew(lookup, SeenNames(fields, lookup))
                \o CarriedOver(fields, lookup))

\* The two loops shared by _get_list_fields, get_app_list and get_model_list.
MergeFields(fields, lookup) ==
  IF MembershipRaises(fields) THEN Raised
  ELSE Returned(CarriedOver(fields, lookup)
                \o AppendedNew(lookup, SeenNames(fields, lookup)))

\* ------------------------------------------------------------ list display
make_list_display_path(app_label, model_name) ==
  <<"apps", app_label, "models", model_name, "list_display">>

get_original_list_display_fields(list_display) ==
  DictComprehension([i \in DOMAIN list_display |->
                       [key |-> list_display[i],
                        value |-> FieldDescription[list_display[i]]]])

\* AppModelListDisplayService._get_list_fields
get_list_fields(list_display, flexlist_config, path) ==
  LET fields == get_config_list_fields(flexlist_config, path)
      original_list_display_fields == get_original_list_display_fields(list_display)
  IN MergeFields(fields, original_list_display_fields)

\* ------------------------------------------------------ app and model lists
make_app_list_path == <<"app_list">>

make_model_list_path(app_label) == <<"apps", app_label, "model_list">>

\* original_app_list_lookup = {app["app_label"]: app for app in original_app_list}
AppLookup(original_app_list) ==
  DictComprehension([i \in DOMAIN original_app_list |->
                       [key |-> original_app_list[i].app_label,
                        value |-> original_app_list[i]]])

\* {model["object_name"]: model for model in original_app["models"]}
ModelLookup(original_app) ==
  DictComprehension([i \in DOMAIN original_app.models |->
                       [key |-> original_app.models[i].object_name,
                        value |-> original_app.models[i]]])

\* AppListViewService.get_app_list
get_app_list(original_app_list, flexlist_config) ==
  LET app_list_fields == get_config_list_fields(flexlist_config, make_app_list_path)
  IN MergeFields(app_list_fields, Authoritative(AppLookup(original_app_list)))

\* AppModelListViewService.get_model_list
get_model_list(original_app_list, flexlist_config, app_label) ==
  LET model_list_fields ==
        get_config_list_fields(flexlist_config, make_model_list_path(app_label))
  IN IF original_app_list = <<>> THEN Returned(<<>>)
     ELSE MergeFields(model_list_fields,
                      Authoritative(ModelLookup(original_app_list[1])))

\* -------------------------------------------------------- request inputs
Entry(name, description, visible) ==
  Obj([name |-> name, description |-> description, visible |-> visible])

\* The elements a posted list is made of, for a domain whose items are n1, n2:
\* a hidden entry with a stale description, a visible entry whose description
\* is no string, an entry whose name is a list, and three elements that are
\* no three-key objects.  (An entry is stale when the host no longer lists
\* its name.)
DataElements(n1, n2) ==
  { Entry(Str(n1), Str("Old"), Bool(FALSE)),
    Entry(Str(n2), Null, Bool(TRUE)),
    Entry(Lst(<<>>), Str("X"), Bool(TRUE)),
    Str("junk"),
    Obj([name |-> Str(n1), visible |-> Bool(TRUE)]),
    Obj([name |-> Str(n1), description |-> Str("Old"), visible |-> Bool(TRUE),
         extra |-> Num(1)]) }

\* body["data"] of a POST: any JSON value; here a non-list or a short list.
DataFor(n1, n2) ==
  {Str("junk")} \cup {Lst(s) : s \in SeqsUpTo(DataElements(n1, n2), MaxLen)}

\* The object names of the models registered for an app.
ModelNames(app_label) == IF app_label = "blog" THEN <<"Post", "Tag">> ELSE <<"User", "Group">>

\* ------------------------------------------------------------------- state
\* request.user: one of the registered users, or the anonymous user.
Users == {"u1", "u2"}
Anonymous == "anonymous"
Callers == Users \cup {Anonymous}
is_authenticated(user) == user \in Users

\* The user whose requests Spec and SpecStored follow.
Owner == "u1"

\* The table of DjangoAdminFlexListConfig rows, one per user at most: the
\* config column of the user's row, or NoRow.
NoRow == [k |-> "norow", v |-> <<>>]

VARIABLES
  config,    \* the table: user -> DjangoAdminFlexListConfig.config, or NoRow
  requests,  \* number of requests served
  last,      \* the last request: operation, caller, path, inputs, outcome
  skip,      \* the _daf_skip_custom_* attributes of the admin instances
  threads,   \* the requests in progress in the threads of the server
  merge,     \* a call of deep_update_dict in progress on objects of the heap
  calls      \* the frames of one outermost call of a wrapped method

vars == <<config, requests, last, skip, threads, merge, calls>>

\* The threads of the server process that serve requests at the same time.
Workers == {1, 2}

\* The wrapped methods: get_list_display of the one ModelAdmin instance of
\* blog.Post and get_app_list of the one FlexListAdminSite instance.
WrappedOps == {"get_list_display", "get_app_list"}

\* getattr(self, "_daf_skip_custom_...", False) before any request.
NoSkip == [op \in WrappedOps |-> FALSE]

\* Variant: the row is reset to the column default whenever it is fetched.
get_or_create_config_Reset(table, user) == [table EXCEPT ![user] = EmptyObj]

\* objects.get_or_create(user=user): the row of the user, created with the
\* column default {} when there is none.
get_or_create_config(table, user) ==
  IF table[user] = NoRow THEN [table EXCEPT ![user] = EmptyObj] ELSE table

\* Variant: a save that is not restricted to the row of the user.
SaveConfig_EveryRow(table, user, flexlist_config) == [u \in Users |-> flexlist_config]

\* flexlist_config.save(update_fields=["config"]): the row of the user.
SaveConfig(table, user, flexlist_config) == [table EXCEPT ![user] = flexlist_config]

\* apps.get_model(app_label, model_name) of the list-display endpoints: the
\* registered models; LookupError for every other name.
Registered == {<<"blog", "post">>, <<"blog", "tag">>, <<"blog", "draft">>}
GetModelRaises(app_label, model_name) == <<app_label, model_name>> \notin Registered

\* admin.site._registry[model] of get_model_admin: the models with an admin
\* class; KeyError for a model that has none.
HasAdmin == {"post", "tag"}
GetModelAdminRaises(model_name) == model_name \notin HasAdmin

ReadOps == {"get_list_fields", "get_app_list", "get_model_list"}
UpdateOps == {"update_list_fields", "update_app_list", "update_model_list"}

\* What an operation did: the table afterwards, whether it reached the store,
\* the entries an update was given, whether the update reached save(), and
\* the list it returned or the error it raised.
Outcome(table, store, fields, saved, result) ==
  [table |-> table, store |-> store, fields |-> fields, saved |-> saved,
   raised |-> result.raised, out |-> result.out]

\* `return []` before the store is reached.
ShortCircuit(table) == Outcome(table, FALSE, <<>>, FALSE, Returned(<<>>))

\* An error raised before the store is reached.
Fault(table) == Outcome(table, FALSE, <<>>, FALSE, Raised)

\* op: the operation; user: the caller; path: the path it addresses; A: the
\* authoritative ordered map of the request; fields, saved, store, raised, out:
\* its outcome; status: the HTTP status of the response that carries it;
\* invoked: an update operation of a view service was called.
Request(op, user, path, A, o) ==
  [op |-> op, user |-> user, path |-> path, A |-> A, fields |-> o.fields,
   saved |-> o.saved, store |-> o.store, raised |-> o.raised, out |-> o.out,
   status |-> IF o.raised THEN 500 ELSE 200, invoked |-> op \in UpdateOps]

\* utils.make_payload_from_list_fields on the returned fields.
Payload(result) ==
  IF result.raised THEN Raised
  ELSE Returned(make_payload_from_list_fields(result.out).v)

NoRows == [user \in Users |-> NoRow]

\* A thread that serves no request.  pc: where the request is; op, user,
\* source, app_label: the request; fields: the entries an update was given;
\* local: the config of the instance the update fetched, as fetched; saved: the
\* position of its save() among the saves, 0 before; raised, out: the outcome.
Idle ==
  [pc |-> "idle", op |-> "none", user |-> Anonymous,
   source |-> [path |-> <<>>, app_label |-> "", domain |-> "none", host |-> <<>>],
   app_label |-> "", fields |-> <<>>, local |-> NoRow, saved |-> 0,
   raised |-> FALSE, out |-> <<>>]

NoThreads == [w \in Workers |-> Idle]

\* No call of deep_update_dict in progress.  heap: the dict objects by
\* identity; stack: the frames of the calls, the innermost last; seen: the
\* identities in the seen set; entered: the targets whose loop was started, in
\* order; raised: the call ended with an exception; steps: loop steps taken.
\* No call of a wrapped method in progress.  op: the method; depth: the
\* class of the instance, counted in subclass steps below FlexListAdmin (or
\* from FlexListAdminSite); own: the classes that define the method
\* themselves and how; stack: the frames, the innermost last; ret: what the
\* frame that ended last handed to its caller; trace: the functions entered.
NoCalls ==
  [pc |-> "idle", op |-> "none", depth |-> 0, own |-> <<>>, stack |-> <<>>,
   ret |-> "none", trace |-> <<>>]

NoMerge ==
  [pc |-> "idle", heap |-> <<>>, stack |-> <<>>, seen |-> {}, entered |-> <<>>,
   raised |-> FALSE, steps |-> 0]

Init ==
  /\ config = NoRows
  /\ requests = 0
  /\ last = Request("init", Owner, <<>>, <<>>, ShortCircuit(NoRows))
  /\ skip = NoSkip
  /\ threads = NoThreads
  /\ merge = NoMerge
  /\ calls = NoCalls

\* The write half of an update operation: the payload is merged into the
\* document and saved; a TypeError of the merge leaves the row as it was.
Written(flexlist_config, list_fields, path) ==
  IF UpdateConfigRaises(flexlist_config) THEN flexlist_config
  ELSE update_config(flexlist_config,
                     make_update_payload_from_list_fields(list_fields, path))

\* What a request reconciles against: the path of its stored list, the domain
\* and the answer of the host admin site for the request.
ListDisplaySource(model_name, list_display) ==
  [path |-> make_list_display_path("blog", model_name), app_label |-> "blog",
   domain |-> "list_display", host |-> list_display]
AppListSource(app_list) ==
  [path |-> make_app_list_path, app_label |-> "", domain |-> "app_list",
   host |-> app_list]
ModelListSource(app_list, app_label) ==
  [path |-> make_model_list_path(app_label), app_label |-> app_label,
   domain |-> "model_list", host |-> AppListFor(app_list, app_label)]

\* The read path of the domain on a document.
Reconcile(source, document) ==
  CASE source.domain = "list_display" ->
         IF GetModelAdminRaises(source.path[4]) THEN Raised
         ELSE get_list_fields(source.host, document, source.path)
    [] source.domain = "app_list" -> get_app_list(source.host, document)
    [] OTHER -> get_model_list(source.host, document, source.app_label)

\* Variant: the read saves the reconciled list at the path.
ReadConfig_Prune(table, user, source) ==
  LET fetched == get_or_create_config(table, user)
      result == Reconcile(source, fetched[user])
  IN IF result.raised \/ UpdateConfigRaises(fetched[user])
     THEN Outcome(fetched, TRUE, <<>>, FALSE, Payload(result))
     ELSE Outcome(SaveConfig(fetched, user,
                             Written(fetched[user], result.out, source.path)),
                  TRUE, <<>>, FALSE, Payload(result))

\* The read shared by the three domains, after the authentication test: the
\* row is fetched or created and the document reconciled.
ReadConfig(table, user, source) ==
  LET fetched == get_or_create_config(table, user)
  IN Outcome(fetched, TRUE, <<>>, FALSE, Payload(Reconcile(source, fetched[user])))

\* Variant: the update answers with the entries it was given.
UpdateConfig_Echo(table, user, list_fields, source) ==
  LET fetched == get_or_create_config(table, user)
      written == Written(fetched[user], list_fields, source.path)
  IN IF UpdateConfigRaises(fetched[user])
     THEN Outcome(fetched, TRUE, list_fields, FALSE, Raised)
     ELSE Outcome(SaveConfig(fetched, user, written), TRUE, list_fields, TRUE,
                  Payload(Returned(list_fields)))

\* The update shared by the three domains, after the authentication test: the
\* row is fetched or created, the payload merged and saved, and the in-memory
\* document reconciled.
UpdateConfig(table, user, list_fields, source) ==
  LET fetched == get_or_create_config(table, user)
      written == Written(fetched[user], list_fields, source.path)
  IN IF UpdateConfigRaises(fetched[user])
     THEN Outcome(fetched, TRUE, list_fields, FALSE, Raised)
     ELSE Outcome(SaveConfig(fetched, user, written), TRUE, list_fields, TRUE,
                  Payload(Reconcile(source, written)))

\* AppModelListDisplayViewService.get_list_fields
view_get_list_fields(table, user, model_name, list_display) ==
  IF GetModelRaises("blog", model_name) THEN Fault(table)
  ELSE IF ~is_authenticated(user) THEN ShortCircuit(table)
  ELSE ReadConfig(table, user, ListDisplaySource(model_name, list_display))

\* AppModelListDisplayViewService.update_list_fields
view_update_list_fields(table, user, model_name, list_display, data) ==
  IF GetModelRaises("blog", model_name) THEN Fault(table)
  ELSE IF ~is_authenticated(user) THEN ShortCircuit(table)
  ELSE UpdateConfig(table, user, make_list_fields_from_data(data),
                    ListDisplaySource(model_name, list_display))

\* AppListViewService.get_app_list(request)
view_get_app_list(table, user, app_list) ==
  IF ~is_authenticated(user) THEN ShortCircuit(table)
  ELSE ReadConfig(table, user, AppListSource(app_list))

\* AppListViewService.update_app_list
view_update_app_list(table, user, app_list, data) ==
  IF ~is_authenticated(user) THEN ShortCircuit(table)
  ELSE UpdateConfig(table, user, make_list_fields_from_data(data),
                    AppListSource(app_list))

\* AppModelListViewService.get_model_list(request, app_label)
view_get_model_list(table, user, app_list, app_label) ==
  IF ~is_authenticated(user) THEN ShortCircuit(table)
  ELSE ReadConfig(table, user, ModelListSource(app_list, app_label))

\* AppModelListViewService.update_model_list
view_update_model_list(table, user, app_list, app_label, data) ==
  IF ~is_authenticated(user) THEN ShortCircuit(table)
  ELSE UpdateConfig(table, user, make_list_fields_from_data(data),
                    ModelListSource(app_list, app_label))

\* One request served from start to end, alone: the table and the record of
\* it.  A wrapped admin method finds its skip attribute unset and leaves it
\* unset.
Serve(op, user, path, A, o) ==
  /\ requests < MaxRequests
  /\ requests' = requests + 1
  /\ config' = o.table
  /\ last' = Request(op, user, path, A, o)
  /\ UNCHANGED <<skip, threads, merge, calls>>

\* AppModelListDisplayViewService.get_list_fields (GET list display)
GetListFields(user, model_name, list_display) ==
  Serve("get_list_fields", user, make_list_display_path("blog", model_name),
        get_original_list_display_fields(list_display),
        view_get_list_fields(config, user, model_name, list_display))

\* AppModelListDisplayViewService.update_list_fields (POST list display)
UpdateListFields(user, model_name, list_display, data) ==
  Serve("update_list_fields", user, make_list_display_path("blog", model_name),
        get_original_list_display_fields(list_display),
        view_update_list_fields(config, user, model_name, list_display, data))

\* AppListViewService.get_app_list (GET app list)
GetAppList(user, app_list) ==
  Serve("get_app_list", user, make_app_list_path,
        Authoritative(AppLookup(app_list)),
        view_get_app_list(config, user, app_list))

\* AppListViewService.update_app_list (POST app list)
UpdateAppList(user, app_list, data) ==
  Serve("update_app_list", user, make_app_list_path,
        Authoritative(AppLookup(app_list)),
        view_update_app_list(config, user, app_list, data))

\* The authoritative map of get_model_list: the models of the one app.
ModelAuthoritative(original_app_list) ==
  IF original_app_list = <<>> THEN <<>>
  ELSE Authoritative(ModelLookup(original_app_list[1]))

\* AppModelListViewService.get_model_list (GET model list)
GetModelList(user, app_list, app_label) ==
  Serve("get_model_list", user, make_model_list_path(app_label),
        ModelAuthoritative(AppListFor(app_list, app_label)),
        view_get_model_list(config, user, app_list, app_label))

\* AppModelListViewService.update_model_list (POST model list)
UpdateModelList(user, app_list, app_label, data) ==
  Serve("update_model_list", user, make_model_list_path(app_label),
        ModelAuthoritative(AppListFor(app_list, app_label)),
        view_update_model_list(config, user, app_list, app_label, data))

\* The requests of one signed-in user on a registered model.
Next ==
  \/ \E list_display \in ListDisplays : GetListFields(Owner, "post", list_display)
  \/ \E list_display \in ListDisplays, data \in DataFor("title", "author") :
       UpdateListFields(Owner, "post", list_display, data)
  \/ \E app_list \in AppLists : GetAppList(Owner, app_list)
  \/ \E app_list \in AppLists, data \in DataFor("blog", "users") :
       UpdateAppList(Owner, app_list, data)
  \/ \E app_list \in AppLists, app_label \in RequestedApps :
       GetModelList(Owner, app_list, app_label)
  \/ \E app_list \in AppLists, app_label \in RequestedApps :
       \E data \in DataFor(ModelNames(app_label)[1], ModelNames(app_label)[2]) :
         UpdateModelList(Owner, app_list, app_label, data)

Spec == Init /\ [][Next]_vars

\* ------------------------------------------------- documents already stored
\* The JSON column can hold any JSON value: documents written by earlier
\* requests, by other releases or by hand.  A well-formed document, documents
\* with a wrong type at the root, at a path segment, at a terminal key or
\* inside a list, with unknown keys, with repeated names and with stale names.
GoodDoc ==
  Obj([app_list |-> Lst(<<Entry(Str("users"), Str("Old"), Bool(FALSE)),
                          Entry(Str("blog"), Str("Blog"), Bool(TRUE))>>),
       apps |-> Obj([
         blog |-> Obj([
           model_list |-> Lst(<<Entry(Str("Tag"), Str("Old"), Bool(FALSE)),
                                Entry(Str("Post"), Str("Posts"), Bool(TRUE))>>),
           models |-> Obj([
             post |-> Obj([list_display |->
                        Lst(<<Entry(Str("author"), Str("Old"), Bool(FALSE)),
                              Entry(Str("slug"), Str("Slug"), Bool(TRUE))>>)]),
             tag |-> Obj([list_display |->
                        Lst(<<Entry(Str("name"), Str("Name"), Bool(FALSE))>>)])])]),
         other_app |-> Obj([model_list |->
                        Lst(<<Entry(Str("Thing"), Str("Things"), Bool(FALSE))>>)])])])

\* A list holding elements of every shape, for a domain whose items are n1, n2.
MixedList(n1, n2) ==
  Lst(<<Str("junk"), Entry(Str(n2), Num(7), Bool(FALSE)), Null,
        Obj([name |-> Str(n1), description |-> Str("Old")]),
        Entry(Str("removed_field"), Str("X"), Bool(TRUE)),
        Obj([name |-> Str(n1), description |-> Str("Old"), visible |-> Bool(TRUE),
             extra |-> Num(1)]),
        Lst(<<>>), Entry(Str(n2), Str("Old"), Str("yes")),
        Entry(Num(7), Str("Old"), Bool(TRUE))>>)

MixedDoc ==
  Obj([theme |-> Str("dark"),
       app_list |-> MixedList("blog", "users"),
       apps |-> Obj([
         blog |-> Obj([
           model_list |-> MixedList("Post", "Tag"),
           models |-> Obj([post |-> Obj([list_display |-> MixedList("title", "author"),
                                         page_size |-> Num(20)])])])])])

StoredDocs ==
  { EmptyObj, GoodDoc, MixedDoc,
    \* not an object at the root
    Lst(<<Str("app_list")>>), Str("apps app_list"), Num(0), Null, Bool(TRUE),
    \* not an object at a path segment
    Obj([app_list |-> Str("junk"), apps |-> Lst(<<>>)]),
    Obj([app_list |-> Obj(<<>>),
         apps |-> Obj([blog |-> Str("junk"),
                       other_app |-> Obj([model_list |-> Lst(<<>>)])])]),
    Obj([apps |-> Obj([blog |-> Obj([model_list |-> Num(1),
                                    models |-> Lst(<<Str("post")>>)])])]),
    Obj([apps |-> Obj([blog |-> Obj([models |-> Obj([post |-> Null])])])]),
    \* not a list at the terminal key
    Obj([app_list |-> Null,
         apps |-> Obj([blog |-> Obj([
           model_list |-> Obj([name |-> Str("Post")]),
           models |-> Obj([post |-> Obj([list_display |-> Str("title")])])])])]),
    \* the same name in two entries
    Obj([app_list |-> Lst(<<Entry(Str("blog"), Str("Old"), Bool(FALSE)),
                            Entry(Str("blog"), Str("Old"), Bool(TRUE))>>)]),
    \* an entry whose name is an object
    Obj([apps |-> Obj([blog |-> Obj([model_list |->
           Lst(<<Entry(Obj(<<>>), Str("Old"), Bool(TRUE))>>)])])]) }

\* One request served on a document that is already stored.
InitStored ==
  /\ \E document \in StoredDocs : config = [NoRows EXCEPT ![Owner] = document]
  /\ requests = MaxRequests - 1
  /\ last = Request("init", Owner, <<>>, <<>>, ShortCircuit(NoRows))
  /\ skip = NoSkip
  /\ threads = NoThreads
  /\ merge = NoMerge
  /\ calls = NoCalls

SpecStored == InitStored /\ [][Next]_vars

\* ------------------------------------------------- admin classes and views
\* bool(x) of Python for a JSON value.
Truthy(x) ==
  CASE x.k = "bool" -> x.v
    [] x.k = "null" -> FALSE
    [] x.k = "num" -> x.v # 0
    [] x.k = "str" -> x.v # ""
    [] x.k = "list" -> x.v # <<>>
    [] OTHER -> DOMAIN x.v # {}

\* [field.name for field in fields if field.visible]
VisibleNames(fields) ==
  LET IsVisible(field) == Truthy(field.visible)
      NameOf(field) == field.name
  IN SeqMap(NameOf, SeqFilter(IsVisible, fields))

\* FlexListAdminService.get_custom_list_display, after the authentication
\* test of AppModelListDisplayService.get_list_fields.
get_custom_list_display(table, user, model_name, list_display) ==
  LET fetched == get_or_create_config(table, user)
      fields == Reconcile(ListDisplaySource(model_name, list_display), fetched[user])
  IN IF ~is_authenticated(user) THEN ShortCircuit(table)
     ELSE Outcome(fetched, TRUE, <<>>, FALSE,
                  IF fields.raised THEN Raised
                  ELSE Returned(VisibleNames(fields.out)))

\* app_label=None of get_app_list.
NoAppLabel == "None"

\* AppModelListService.get_original_app_list for a signed-in user.
get_original_app_list(app_list, app_label) ==
  IF app_label = NoAppLabel THEN app_list ELSE AppListFor(app_list, app_label)

\* The two loops of get_custom_app_list, for apps and for models alike: the
\* keys of the stored fields that are in the lookup and visible, in stored
\* order, then the keys of the lookup not seen.
CustomKeys(fields, lookup) ==
  LET Shown(field) == NameInLookup(field.name, lookup) /\ Truthy(field.visible)
      NameOf(field) == field.name.v
      Unseen(item) == item.key \notin SeenNames(fields, lookup)
      KeyOf(item) == item.key
  IN SeqMap(NameOf, SeqFilter(Shown, fields)) \o SeqMap(KeyOf, SeqFilter(Unseen, lookup))

\* `for app in result: ... app["models"] = models_result`: labels are the apps
\* of result still to visit, apps the lookup that holds the app dicts (an app
\* listed twice in result is the same dict).
RECURSIVE CustomModels(_, _, _)
CustomModels(labels, apps, document) ==
  IF labels = <<>> THEN [raised |-> FALSE, apps |-> apps]
  ELSE LET i == Lookup(apps, Head(labels))
           app == apps[i].value
           model_list_fields ==
             get_config_list_fields(document, make_model_list_path(app.app_label))
           original_model_list_lookup == ModelLookup(app)
           keys == CustomKeys(model_list_fields, original_model_list_lookup)
           models_result ==
             [j \in DOMAIN keys |->
                original_model_list_lookup[Lookup(original_model_list_lookup, keys[j])].value]
       IN IF MembershipRaises(model_list_fields) THEN [raised |-> TRUE, apps |-> apps]
          ELSE CustomModels(Tail(labels), [apps EXCEPT ![i].value.models = models_result],
                            document)

\* FlexListAdminSiteService.get_custom_app_list
get_custom_app_list(table, user, app_list, app_label) ==
  LET fetched == get_or_create_config(table, user)
      app_list_fields == get_config_list_fields(fetched[user], make_app_list_path)
      original_app_list_lookup == AppLookup(get_original_app_list(app_list, app_label))
      result == CustomKeys(app_list_fields, original_app_list_lookup)
      visited == CustomModels(result, original_app_list_lookup, fetched[user])
  IN IF ~is_authenticated(user) THEN ShortCircuit(table)
     ELSE Outcome(fetched, TRUE, <<>>, FALSE,
                  IF MembershipRaises(app_list_fields) \/ visited.raised THEN Raised
                  ELSE Returned([j \in DOMAIN result |->
                                   visited.apps[Lookup(visited.apps, result[j])].value]))

\* FlexListAdmin.get_list_display (wrapped) of the admin of blog.Post, one
\* request at a time: the skip flag is not set on entry.
GetListDisplay(user, list_display) ==
  Serve("get_list_display", user, make_list_display_path("blog", "post"),
        get_original_list_display_fields(list_display),
        get_custom_list_display(config, user, "post", list_display))

\* FlexListAdminSite.get_app_list, one request at a time.  The record keeps
\* the answer of the host admin site and the app_label argument.
GetCustomAppList(user, app_list, app_label) ==
  LET o == get_custom_app_list(config, user, app_list, app_label)
      A == Authoritative(AppLookup(get_original_app_list(app_list, app_label)))
  IN /\ requests < MaxRequests
     /\ requests' = requests + 1
     /\ config' = o.table
     /\ last' = Request("get_custom_app_list", user, make_app_list_path, A, o)
                  @@ [app_list |-> app_list, app_label |-> app_label]
     /\ UNCHANGED <<skip, threads, merge, calls>>

\* request.body that json.loads rejects.
NotJson == [k |-> "text", v |-> "{data"]

\* StaffRequiredMixin.test_func: every registered user here is staff.
test_func(user) == is_authenticated(user)

\* body["data"] raises TypeError on a body that is no object (a string, a
\* list, a number, null) and KeyError on an object without the key.
SubscriptRaises(body) == ~IsDict(body) \/ "data" \notin DOMAIN body.v

\* A view's post: the response status, whether the update operation of the
\* service was invoked, and the outcome.  302: handle_no_permission; 400: the
\* JSONDecodeError branch; 500: an error nothing in the view catches.
Response(status, invoked, o) == [status |-> status, invoked |-> invoked, o |-> o]

NotInvoked(status, table) ==
  Response(status, FALSE, IF status = 500 THEN Fault(table) ELSE ShortCircuit(table))

Invoked(o) == Response(IF o.raised THEN 500 ELSE 200, TRUE, o)

\* One POST served from start to end; the record keeps request.body.
ServeView(op, user, path, A, body, response) ==
  /\ requests < MaxRequests
  /\ requests' = requests + 1
  /\ config' = response.o.table
  /\ last' = [Request(op, user, path, A, response.o) EXCEPT
                !.status = response.status, !.invoked = response.invoked]
              @@ [body |-> body]
  /\ UNCHANGED <<skip, threads, merge, calls>>

\* AppModelListDisplayView.post
PostListDisplay(user, model_name, list_display, body) ==
  ServeView("post_list_display", user, make_list_display_path("blog", model_name),
            get_original_list_display_fields(list_display), body,
            IF ~test_func(user) THEN NotInvoked(302, config)
            ELSE IF body = NotJson THEN NotInvoked(400, config)
            ELSE IF SubscriptRaises(body) THEN NotInvoked(500, config)
            ELSE Invoked(view_update_list_fields(config, user, model_name,
                                                 list_display, body.v["data"])))

\* AppListView.post
PostAppList(user, app_list, body) ==
  ServeView("post_app_list", user, make_app_list_path,
            Authoritative(AppLookup(app_list)), body,
            IF ~test_func(user) THEN NotInvoked(302, config)
            ELSE IF body = NotJson THEN NotInvoked(400, config)
            ELSE IF SubscriptRaises(body) THEN NotInvoked(500, config)
            ELSE Invoked(view_update_app_list(config, user, app_list, body.v["data"])))

\* AppModelListView.post
PostModelList(user, app_list, app_label, body) ==
  ServeView("post_model_list", user, make_model_list_path(app_label),
            ModelAuthoritative(AppListFor(app_list, app_label)), body,
            IF ~test_func(user) THEN NotInvoked(302, config)
            ELSE IF body = NotJson THEN NotInvoked(400, config)
            ELSE IF SubscriptRaises(body) THEN NotInvoked(500, config)
            ELSE Invoked(view_update_model_list(config, user, app_list, app_label,
                                                body.v["data"])))

\* ----------------------------------------------- the site with all callers
\* The lists a layout form posts for a domain whose items are n1, n2: the two
\* items in the other order with one hidden, a stale item before a hidden one,
\* an entry whose visible is a string; and a value that is no list.
SiteData(n1, n2) ==
  { Lst(<<Entry(Str(n2), Str("Old"), Bool(FALSE)), Entry(Str(n1), Str("Old"), Bool(TRUE))>>),
    Lst(<<Entry(Str("removed_field"), Str("X"), Bool(TRUE)),
          Entry(Str(n1), Str("Old"), Bool(FALSE))>>),
    Lst(<<Entry(Str(n2), Str("Old"), Str("yes"))>>),
    Str("junk") }

\* The bodies of a POST: text that is no JSON, JSON that is no object, an
\* object without "data", and objects with a "data" value that is no list
\* or a list of one entry.
Bodies(n1, n2) ==
  {NotJson, Lst(<<Str("data")>>), Str("data"), Null, EmptyObj}
    \cup {Obj([data |-> data]) :
            data \in {d \in SiteData(n1, n2) : IsList(d) => Len(d.v) = 1}}

\* The model names of the list-display URLs: a registered model, a model
\* without an admin class and a name that resolves to nothing.
ModelNameArgs == {"post", "draft", "ghost"}

SiteListDisplays == {<<"author">>, <<"title", "author">>}
SiteAppLists == {<<BlogApp(<<Post, Tag>>)>>, <<BlogApp(<<Post, Tag>>), UsersApp>>}
AppLabelArgs == {NoAppLabel, "blog", "ghost"}

NextSite ==
  \/ \E user \in Callers, model_name \in ModelNameArgs, list_display \in SiteListDisplays :
       GetListFields(user, model_name, list_display)
  \/ \E user \in Callers, model_name \in ModelNameArgs, list_display \in SiteListDisplays :
       \E data \in SiteData("title", "author") :
         UpdateListFields(user, model_name, list_display, data)
  \/ \E user \in Callers, app_list \in SiteAppLists : GetAppList(user, app_list)
  \/ \E user \in Callers, app_list \in SiteAppLists, data \in SiteData("blog", "users") :
       UpdateAppList(user, app_list, data)
  \/ \E user \in Callers, app_list \in SiteAppLists, app_label \in {"blog", "ghost"} :
       GetModelList(user, app_list, app_label)
  \/ \E user \in Callers, app_list \in SiteAppLists, app_label \in {"blog", "ghost"} :
       \E data \in SiteData("Post", "Tag") :
         UpdateModelList(user, app_list, app_label, data)
  \/ \E user \in Callers, list_display \in SiteListDisplays :
       GetListDisplay(user, list_display)
  \/ \E user \in Callers, app_list \in SiteAppLists, app_label \in AppLabelArgs :
       GetCustomAppList(user, app_list, app_label)
  \/ \E user \in Callers, model_name \in ModelNameArgs, list_display \in SiteListDisplays :
       \E body \in Bodies("title", "author") :
         PostListDisplay(user, model_name, list_display, body)
  \/ \E user \in Callers, app_list \in SiteAppLists, body \in Bodies("blog", "users") :
       PostAppList(user, app_list, body)
  \/ \E user \in Callers, app_list \in SiteAppLists, body \in Bodies("Post", "Tag") :
       PostModelList(user, app_list, "blog", body)

\* A document whose app_list names an app twice, as a POST of that list
\* leaves it: hidden first, visible second.
TwiceDoc ==
  Obj([app_list |-> Lst(<<Entry(Str("blog"), Str("Blog"), Bool(FALSE)),
                          Entry(Str("blog"), Str("Blog"), Bool(TRUE))>>)])

\* Two requests served, on a table without rows or with the row of one user.
SiteDocs == {GoodDoc, MixedDoc, TwiceDoc}

InitSite ==
  /\ \/ config = NoRows
     \/ \E document \in SiteDocs : config = [NoRows EXCEPT ![Owner] = document]
  /\ requests = MaxRequests - 2
  /\ last = Request("init", Owner, <<>>, <<>>, ShortCircuit(NoRows))
  /\ skip = NoSkip
  /\ threads = NoThreads
  /\ merge = NoMerge
  /\ calls = NoCalls

SpecSite == InitSite /\ [][NextSite]_vars

\* ------------------------------------------------- requests in two threads
\* original_get_list_display(self, request) as a list of names, and
\* super().get_app_list(request, app_label).
OriginalResult(op, source, app_label) ==
  IF op = "get_list_display" THEN [i \in DOMAIN source.host |-> Str(source.host[i])]
  ELSE get_original_app_list(source.host, app_label)

\* service.get_custom_list_display(request, self.model) and
\* service.get_custom_app_list(request, app_label).
CustomResult(table, op, user, source, app_label) ==
  IF op = "get_list_display"
  THEN get_custom_list_display(table, user, "post", source.host)
  ELSE get_custom_app_list(table, user, source.host, app_label)

\* wrapped / get_app_list, the test of the skip attribute: when it is set the
\* original method answers the request.
TestSkip(w, op, user, source, app_label) ==
  /\ threads[w].pc = "idle"
  /\ threads' = [threads EXCEPT ![w] =
       [Idle EXCEPT !.op = op, !.user = user, !.source = source,
                    !.app_label = app_label,
                    !.pc = IF skip[op] THEN "done" ELSE "set",
                    !.out = IF skip[op] THEN OriginalResult(op, source, app_label)
                            ELSE <<>>]]
  /\ UNCHANGED <<config, requests, last, skip, merge, calls>>

\* self._daf_skip_custom_... = True
SetSkip(w) ==
  /\ threads[w].pc = "set"
  /\ skip' = [skip EXCEPT ![threads[w].op] = TRUE]
  /\ threads' = [threads EXCEPT ![w].pc = "call"]
  /\ UNCHANGED <<config, requests, last, merge, calls>>

\* return service.get_custom_...(request, ...)
CallService(w) ==
  LET t == threads[w]
      o == CustomResult(config, t.op, t.user, t.source, t.app_label)
  IN /\ t.pc = "call"
     /\ config' = o.table
     /\ threads' = [threads EXCEPT ![w].pc = "finally", ![w].raised = o.raised,
                                   ![w].out = o.out]
     /\ UNCHANGED <<requests, last, skip, merge, calls>>

\* finally: self._daf_skip_custom_... = False
ResetSkip(w) ==
  /\ threads[w].pc = "finally"
  /\ skip' = [skip EXCEPT ![threads[w].op] = FALSE]
  /\ threads' = [threads EXCEPT ![w].pc = "done"]
  /\ UNCHANGED <<config, requests, last, merge, calls>>

\* The tables the threads start on: the first user has a stored layout, the
\* second user no row or a row whose document is no object.
ThreadsTables ==
  { [NoRows EXCEPT ![Owner] = GoodDoc],
    [u \in Users |-> IF u = Owner THEN GoodDoc ELSE Lst(<<Str("app_list")>>)] }

InitThreads ==
  /\ config \in ThreadsTables
  /\ requests = 0
  /\ last = Request("init", Owner, <<>>, <<>>, ShortCircuit(NoRows))
  /\ skip = NoSkip
  /\ threads = NoThreads
  /\ merge = NoMerge
  /\ calls = NoCalls

\* Page loads of signed-in users served by the threads of one process.
NextWrapped ==
  \E w \in Workers :
    \/ \E user \in Users, list_display \in SiteListDisplays :
         TestSkip(w, "get_list_display", user,
                  ListDisplaySource("post", list_display), "")
    \/ \E user \in Users, app_list \in SiteAppLists, app_label \in {NoAppLabel, "blog"} :
         TestSkip(w, "get_app_list", user, AppListSource(app_list), app_label)
    \/ SetSkip(w)
    \/ CallService(w)
    \/ ResetSkip(w)

SpecWrapped == InitThreads /\ [][NextWrapped]_vars

\* The first half of an update operation of a signed-in user:
\* flexlist_config = self.store.get_or_create_config(request.user)
LoadConfig(w, user, source, data) ==
  LET fetched == get_or_create_config(config, user)
  IN /\ threads[w].pc = "idle"
     /\ config' = fetched
     /\ threads' = [threads EXCEPT ![w] =
          [Idle EXCEPT !.pc = "loaded", !.op = "update", !.user = user,
                       !.source = source, !.local = fetched[user],
                       !.fields = make_list_fields_from_data(data)]]
     /\ UNCHANGED <<requests, last, skip, merge, calls>>

\* The second half: the payload is merged into the config of the fetched
\* instance, the instance is saved and the read path runs on it.
MergeAndSave(w) ==
  LET t == threads[w]
      written == Written(t.local, t.fields, t.source.path)
      result == Payload(Reconcile(t.source, written))
      saves == Cardinality({v \in Workers : threads[v].saved > 0})
  IN /\ t.pc = "loaded"
     /\ IF UpdateConfigRaises(t.local)
        THEN /\ threads' = [threads EXCEPT ![w].pc = "done", ![w].raised = TRUE]
             /\ UNCHANGED config
        ELSE /\ config' = SaveConfig(config, t.user, written)
             /\ threads' = [threads EXCEPT ![w].pc = "done", ![w].saved = saves + 1,
                                           ![w].raised = result.raised,
                                           ![w].out = result.out]
     /\ UNCHANGED <<requests, last, skip, merge, calls>>

\* The lists the layout forms of the three domains post.
RaceSources ==
  { ListDisplaySource("post", <<"title", "author">>),
    AppListSource(<<BlogApp(<<Post, Tag>>), UsersApp>>),
    ModelListSource(<<BlogApp(<<Post, Tag>>), UsersApp>>, "blog") }

RaceNames(source) ==
  CASE source.domain = "list_display" -> <<"title", "author">>
    [] source.domain = "app_list" -> <<"blog", "users">>
    [] OTHER -> <<"Post", "Tag">>

RaceData(n1, n2) ==
  { Lst(<<Entry(Str(n2), Str("Old"), Bool(FALSE)), Entry(Str(n1), Str("Old"), Bool(TRUE))>>),
    Lst(<<Entry(Str(n1), Str("Old"), Bool(FALSE))>>),
    Lst(<<Entry(Str(n2), Str("Old"), Str("yes"))>>) }

\* Updates of signed-in users served by the threads of one process.
NextUpdates ==
  \E w \in Workers :
    \/ \E user \in Users, source \in RaceSources :
         \E data \in RaceData(RaceNames(source)[1], RaceNames(source)[2]) :
           LoadConfig(w, user, source, data)
    \/ MergeAndSave(w)

SpecUpdates == InitThreads /\ [][NextUpdates]_vars

\* ---------------------------------------------------------------- properties
\* The last request returned a list.
ReturnedList == last.op # "init" /\ ~last.raised

\* The stored document of the caller of the last request.
Document == IF last.user \in Users THEN config[last.user] ELSE NoRow

\* S: the entries stored at the path of the last request when it reconciled.
StoredFields == get_config_list_fields(Document, last.path)

\* The names of the authoritative map A of the last request, as JSON strings.
AuthNames == {Str(last.A[i].key) : i \in DOMAIN last.A}
StoredNames == {StoredFields[i].name : i \in DOMAIN StoredFields}
OutNames == [i \in DOMAIN last.out |-> last.out[i].v["name"]]

\* The stored entries that name an authoritative item, in stored order.
CarriedFields ==
  LET InA(field) == field.name \in AuthNames IN SeqFilter(InA, StoredFields)
CarriedNames == [i \in DOMAIN CarriedFields |-> CarriedFields[i].name]

\* The authoritative names without a stored entry, in authoritative order.
NewNames ==
  LET KeyOf(item) == Str(item.key)
      NotStored(item) == Str(item.key) \notin StoredNames
  IN SeqMap(KeyOf, SeqFilter(NotStored, last.A))

\* C1 (completeness): whenever a read or an update returns its merged list,
\* the set of names in that list is exactly the set of keys of the
\* authoritative map, whatever the stored list holds.
C1_Completeness == ReturnedList => Range(OutNames) = AuthNames

\* A read returned on a stored list with a stale name, a repeated current
\* name and an entry whose description is no string.
C1_Witness ==
  /\ ReturnedList /\ last.op \in ReadOps /\ Len(last.A) = 2
  /\ \E i \in DOMAIN StoredFields : StoredFields[i].name \notin AuthNames
  /\ \E i, j \in DOMAIN StoredFields :
       i # j /\ StoredFields[i].name = StoredFields[j].name
             /\ StoredFields[i].name \in AuthNames
  /\ \E i \in DOMAIN StoredFields : StoredFields[i].description.k # "str"

\* C2 (exactly once): every returned merged list holds each authoritative
\* name exactly once: no two entries share a name and the list is as long
\* as the authoritative map.
C2_ExactlyOnce ==
  ReturnedList =>
    /\ Len(last.out) = Len(last.A)
    /\ \A i, j \in DOMAIN last.out : OutNames[i] = OutNames[j] => i = j

\* C3 (order preservation): the returned names are the carried-over names in
\* stored order followed by the authoritative-only names in authoritative
\* order.
C3_OrderPreservation == ReturnedList => OutNames = CarriedNames \o NewNames

\* A carried-over name precedes a new one that comes first in the
\* authoritative order.
C3_Witness ==
  /\ ReturnedList /\ Len(CarriedNames) >= 1 /\ Len(NewNames) >= 1
  /\ Str(last.A[1].key) = NewNames[1]

\* C4 (description authority): every returned entry carries the authoritative
\* description of its name, and the i-th carried-over entry is returned with
\* the visibility it is stored with.
C4_DescriptionAuthority ==
  ReturnedList =>
    /\ \A i \in DOMAIN last.out :
         \E j \in DOMAIN last.A :
           /\ last.out[i].v["name"] = Str(last.A[j].key)
           /\ last.out[i].v["description"] = Str(last.A[j].value)
    /\ Len(last.out) >= Len(CarriedFields)
    /\ \A i \in DOMAIN CarriedFields :
         last.out[i].v["visible"] = CarriedFields[i].visible

\* A hidden carried-over entry whose stored description is not the
\* authoritative one.
C4_Witness ==
  /\ ReturnedList /\ last.op = "get_app_list"
  /\ \E i \in DOMAIN CarriedFields :
       /\ CarriedFields[i].visible = Bool(FALSE)
       /\ \A j \in DOMAIN last.A : CarriedFields[i].description # Str(last.A[j].value)

\* C5 (defaults): a returned entry whose name has no stored entry is visible,
\* and with nothing stored at the path the result is the authoritative items
\* in authoritative order, all visible.
C5_Defaults ==
  ReturnedList =>
    /\ \A i \in DOMAIN last.out :
         OutNames[i] \notin StoredNames => last.out[i].v["visible"] = Bool(TRUE)
    /\ StoredFields = <<>> =>
         last.out = [i \in DOMAIN last.A |->
                      Entry(Str(last.A[i].key), Str(last.A[i].value), Bool(TRUE))]

\* A read of the list display on the new document, two fields declared.
C5_Witness ==
  /\ ReturnedList /\ last.op = "get_list_fields" /\ Document = EmptyObj
  /\ Len(last.A) = 2 /\ Len(last.out) = 2

\* C6 (idempotence): reconciling a returned list again against the same
\* authoritative map returns it unchanged.
C6_Idempotence ==
  ReturnedList =>
    Payload(MergeFields(make_list_fields_from_data(Lst(last.out)), last.A))
      = Returned(last.out)

\* The first reconciliation dropped a stale entry and appended a new one.
C6_Witness ==
  /\ ReturnedList /\ Len(last.out) = 2
  /\ Len(CarriedFields) = 1 /\ Len(StoredFields) >= 2 /\ Len(NewNames) = 1

\* C7 (reads never fail): a read operation returns a list, it raises no
\* error, whatever the stored document holds.
C7_ReadsNeverFail == last.op \in ReadOps => ~last.raised

WellTyped(field) ==
  field.name.k = "str" /\ field.description.k = "str" /\ field.visible.k = "bool"

\* C8 (entry shape filter): every entry kept by make_list_fields_from_data
\* and every entry returned by get_config_list_fields has a string name, a
\* string description and a boolean visible.
C8_EntryShapeFilter ==
  /\ \A i \in DOMAIN last.fields : WellTyped(last.fields[i])
  /\ \A i \in DOMAIN StoredFields : WellTyped(StoredFields[i])

\* The part of a dict off the path: every key but the first of the path keeps
\* its value, and so on below the first key while the target holds dicts.
RECURSIVE OffPathSame(_, _, _)
OffPathSame(before, after, path) ==
  /\ IsDict(before) /\ IsDict(after)
  /\ DOMAIN after.v = (DOMAIN before.v) \cup {path[1]}
  /\ \A key \in (DOMAIN before.v) \ {path[1]} : after.v[key] = before.v[key]
  /\ (Len(path) > 1 /\ path[1] \in DOMAIN before.v /\ IsDict(before.v[path[1]]))
       => OffPathSame(before.v[path[1]], after.v[path[1]], Tail(path))

\* C9 (merge locality): an update that saves leaves every part of the
\* document that is not on the path of its patch as it was.
C9_MergeLocality ==
  [][last'.saved =>
       OffPathSame(config[last'.user], config'[last'.user], last'.path)]_vars

\* The model list of blog was replaced in the well-formed document: app_list,
\* the other app and the list_display subtrees of blog are those of before.
C9_Witness ==
  /\ last.saved /\ last.path = make_model_list_path("blog")
  /\ Document # GoodDoc
  /\ DictGet(Document, "app_list") = DictGet(GoodDoc, "app_list")
  /\ DictGet(DictGet(Document, "apps"), "other_app")
       = DictGet(DictGet(GoodDoc, "apps"), "other_app")
  /\ DictGet(DictGet(DictGet(Document, "apps"), "blog"), "models")
       = DictGet(DictGet(DictGet(GoodDoc, "apps"), "blog"), "models")

\* C10 (round trip): after an update has merged the payload built from its
\* entries and saved, reading the document at the same path returns exactly
\* those entries, in the same order.
C10_RoundTrip == last.saved => get_config_list_fields(Document, last.path) = last.fields

\* Two entries of the same name were written over a list already stored.
C10_Witness ==
  /\ last.saved /\ Len(last.fields) = 2 /\ last.fields[1] = last.fields[2]
  /\ "theme" \in DOMAIN Document.v

\* The read operation of the domain an update operation belongs to.
ReadOf(op) ==
  CASE op = "update_list_fields" -> "get_list_fields"
    [] op = "update_app_list" -> "get_app_list"
    [] OTHER -> "get_model_list"

\* The list the read path gives for the request r on the table.
ReconciledFrom(table, r) ==
  Payload(MergeFields(get_config_list_fields(table[r.user], r.path), r.A))

\* C11 (update returns the reconciled list): an update operation of a
\* signed-in user that returns, returns the list reconciled against the
\* authoritative map from the document it has just written, which holds
\* authoritative names only; and the read operation of the same domain that
\* the same user issues next, with the same authoritative map, returns the
\* same list.
C11_UpdateReturnsReconciled ==
  [][/\ (last'.op \in UpdateOps /\ ~last'.raised /\ is_authenticated(last'.user)) =>
          /\ Returned(last'.out) = ReconciledFrom(config', last')
          /\ \A i \in DOMAIN last'.out :
               \E j \in DOMAIN last'.A : last'.out[i].v["name"] = Str(last'.A[j].key)
     /\ (/\ last.op \in UpdateOps /\ ~last.raised
         /\ last'.op = ReadOf(last.op) /\ last'.user = last.user
         /\ last'.path = last.path /\ last'.A = last.A) =>
          (~last'.raised /\ last'.out = last.out)]_vars

\* An update was given a stale name and a hidden authoritative one, saved
\* them and returned a list that is not the list given.
C11_Witness ==
  /\ last.op \in UpdateOps /\ ~last.raised /\ last.saved
  /\ \E i \in DOMAIN last.fields : last.fields[i].name \notin AuthNames
  /\ \E i \in DOMAIN last.fields : last.fields[i].name \in AuthNames
  /\ Len(last.out) = 2
  /\ Len(last.fields) = 2
  /\ last.out # make_payload_from_list_fields(last.fields).v

\* The operations of the adapters: the reads and updates of the view services
\* and the two operations behind the admin class and the admin site.
AdapterOps == ReadOps \cup UpdateOps \cup {"get_list_display", "get_custom_app_list"}

\* C12 (unauthenticated short-circuit): an adapter operation called by a
\* caller who is not signed in returns the empty list, raises no error and
\* does not reach the store, whatever its arguments are.
C12_UnauthenticatedShortCircuit ==
  (last.op \in AdapterOps /\ ~is_authenticated(last.user)) =>
    (last.out = <<>> /\ ~last.raised /\ ~last.store)

\* The names of the entries of a returned list whose visible is true.
TrueNames(entries) ==
  LET IsTrue(entry) == entry.v["visible"] = Bool(TRUE)
      NameOf(entry) == entry.v["name"]
  IN SeqMap(NameOf, SeqFilter(IsTrue, entries))

\* C13 (effective columns): the column list get_list_display returns for a
\* signed-in user is the names of the entries with visible = true of the
\* user's merged list for the model, in the order of the merged list.
C13_EffectiveColumns ==
  (last.op = "get_list_display" /\ is_authenticated(last.user) /\ ~last.raised) =>
    last.out = TrueNames(ReconciledFrom(config, last).out)

\* C14 (rendered app list agrees with the editable lists): for a signed-in
\* user, the app labels get_custom_app_list(request) returns are the names of
\* the entries with visible = true of get_app_list(request), in that order, and
\* the object names of the models of each returned app are the names of the
\* entries with visible = true of get_model_list(request, app_label), in that
\* order, on the same document and the same answer of the host.
C14_RenderedAgreesWithEditable ==
  (/\ last.op = "get_custom_app_list" /\ is_authenticated(last.user)
   /\ ~last.raised /\ last.app_label = NoAppLabel) =>
    LET apps == view_get_app_list(config, last.user, last.app_list)
    IN /\ ~apps.raised
       /\ [i \in DOMAIN last.out |-> Str(last.out[i].app_label)] = TrueNames(apps.out)
       /\ \A i \in DOMAIN last.out :
            LET models == view_get_model_list(config, last.user, last.app_list,
                                              last.out[i].app_label)
            IN /\ ~models.raised
               /\ [j \in DOMAIN last.out[i].models |->
                     Str(last.out[i].models[j].object_name)] = TrueNames(models.out)

\* The table as it is when no user but the given one has ever made a request.
OnlyRowOf(table, user) == [NoRows EXCEPT ![user] = table[user]]

\* C15 (per-user isolation): a request leaves the stored document of every
\* user but its caller as it was, and what a read operation returns to a
\* signed-in user is what it returns on the table that holds that user's row
\* only.
C15_PerUserIsolation ==
  [][/\ \A user \in Users : user # last'.user => config'[user] = config[user]
     /\ (last'.op \in ReadOps /\ is_authenticated(last'.user) /\ ~last'.raised) =>
          Returned(last'.out) =
            ReconciledFrom(get_or_create_config(OnlyRowOf(config, last'.user),
                                                last'.user), last')]_vars

\* The first user has saved a layout; the second user, without a row until
\* now, reads the same list and gets the default: the authoritative order,
\* everything visible.
C15_Witness ==
  /\ last.op = "get_app_list" /\ last.user = "u2" /\ ~last.raised
  /\ config["u2"] = EmptyObj
  /\ config["u1"] \notin SiteDocs \cup {NoRow, EmptyObj}
  /\ get_config_list_fields(config["u1"], last.path) # <<>>
  /\ Len(last.A) = 2
  /\ last.out = [i \in DOMAIN last.A |->
                   Entry(Str(last.A[i].key), Str(last.A[i].value), Bool(TRUE))]

PostOps == {"post_list_display", "post_app_list", "post_model_list"}

\* A body that is no JSON, JSON that is no object, an object without "data",
\* or a "data" value that is no list.
InvalidBody(body) ==
  \/ body = NotJson
  \/ ~IsDict(body)
  \/ "data" \notin DOMAIN body.v
  \/ ~IsList(body.v["data"])

\* C16 (invalid payloads stop at the HTTP boundary): a POST of a staff user
\* whose body is invalid is answered with status 400, no update operation is
\* invoked and the stored documents are unchanged.
C16_InvalidPayloadRejected ==
  [][(last'.op \in PostOps /\ test_func(last'.user) /\ InvalidBody(last'.body)) =>
       (last'.status = 400 /\ ~last'.invoked /\ config' = config)]_vars

\* The operations that read: those of the view services and the two behind
\* the admin class and the admin site.
AllReadOps == ReadOps \cup {"get_list_display", "get_custom_app_list"}

\* C17 (reads are read-only): a read operation leaves every stored document
\* that exists as it is, and a stored document that exists changes only in a
\* request that invokes an update operation.
C17_ReadsAreReadOnly ==
  [][/\ last'.op \in AllReadOps =>
          \A user \in Users : config[user] # NoRow => config'[user] = config[user]
     /\ (\E user \in Users : config[user] # NoRow /\ config'[user] # config[user]) =>
          last'.invoked]_vars

\* A read of the list an update has written before: the stored entry still
\* has the description it was posted with, the returned one has the
\* authoritative description.
C17_Witness ==
  /\ last.op \in AllReadOps /\ ~last.raised /\ is_authenticated(last.user)
  /\ Document \notin SiteDocs \cup {NoRow, EmptyObj}
  /\ \E i \in DOMAIN StoredFields :
       /\ StoredFields[i].name \in AuthNames
       /\ StoredFields[i].description = Str("Old")
  /\ last.op = "get_model_list" /\ Len(last.out) = 2
  /\ \A i \in DOMAIN last.out : last.out[i].v["description"] # Str("Old")

\* C18 (safe sharing across concurrent requests): every request that has
\* called get_list_display on the shared ModelAdmin instance, or get_app_list
\* on the shared admin site, has received the customized result it receives
\* when it runs alone, whatever the other thread was doing.
C18_SafeSharing ==
  \A w \in Workers :
    (threads[w].pc = "done" /\ threads[w].op \in WrappedOps) =>
      LET t == threads[w]
          alone == CustomResult(config, t.op, t.user, t.source, t.app_label)
      IN t.raised = alone.raised /\ t.out = alone.out

\* The paths the layout forms update.
RacePaths == {source.path : source \in RaceSources}

\* The threads whose update of the user's list at the path has been saved.
SaversOf(user, path) ==
  {w \in Workers : /\ threads[w].op = "update" /\ threads[w].saved > 0
                   /\ threads[w].user = user /\ threads[w].source.path = path}

\* The list last written to the path of the user's document: the entries of
\* the latest saved update of that path, or the list the document started with.
LastWritten(user, path) ==
  IF SaversOf(user, path) = {}
  THEN get_config_list_fields(IF user = Owner THEN GoodDoc ELSE EmptyObj, path)
  ELSE LET w == CHOOSE v \in SaversOf(user, path) :
                  \A u \in SaversOf(user, path) : threads[u].saved <= threads[v].saved
       IN threads[w].fields

\* C19 (sibling paths survive updates): whenever an update of one path of a
\* user's document has completed, the stored list at every other path of
\* that document is the list last written to it, also when two updates of the
\* same user on two different paths interleave.
C19_SiblingPathsSurvive ==
  \A w \in Workers :
    (threads[w].op = "update" /\ threads[w].pc = "done" /\ threads[w].saved > 0) =>
      \A path \in RacePaths \ {threads[w].source.path} :
        get_config_list_fields(config[threads[w].user], path)
          = LastWritten(threads[w].user, path)

\* Two threads whose updates of one path of one user's document are saved.
BothSaved(w1, w2) ==
  /\ w1 # w2
  /\ \A w \in {w1, w2} :
       threads[w].op = "update" /\ threads[w].pc = "done" /\ threads[w].saved > 0
  /\ threads[w1].user = threads[w2].user
  /\ threads[w1].source.path = threads[w2].source.path
  /\ threads[w1].saved < threads[w2].saved

\* C20 (last writer wins on one path): after two updates of the same path of
\* the same user's document have both completed, in whatever order their loads
\* and saves ran, the stored list at the path is the complete entry list of
\* the update that saved last: no mixture of the two and not the list stored
\* before.
C20_LastWriterWins ==
  \A w1, w2 \in Workers :
    BothSaved(w1, w2) =>
      get_config_list_fields(config[threads[w2].user], threads[w2].source.path)
        = threads[w2].fields

\* Two different updates of a stored list have interleaved: the one that saved
\* last loaded the document before the other saved.
C20_Witness ==
  \E w1, w2 \in Workers :
    /\ BothSaved(w1, w2)
    /\ threads[w1].fields # threads[w2].fields
    /\ get_config_list_fields(threads[w2].local, threads[w2].source.path)
         \notin {<<>>, threads[w1].fields, threads[w2].fields}

\* ------------------------------------------------- deep_update_dict on trees
MergeKeys == {"apps", "blog"}

\* The JSON values that are no objects.
MergeLeaves == {Lst(<<Num(1)>>), Lst(<<Num(2), Num(1)>>)}

\* The objects over MergeKeys whose values are taken from the set.
ObjectsOver(values) ==
  UNION {{Obj(f) : f \in [keys -> values]} : keys \in SUBSET MergeKeys}

\* Objects nested up to three levels.
MergeTrees ==
  LET level1 == ObjectsOver(MergeLeaves)
      level2 == ObjectsOver({Num(1)} \cup level1)
  IN level2 \cup {Obj([key \in {"apps"} |-> d]) : d \in level2}

\* utils.deep_update_dict(target, patch) as its callers call it: seen is None.
DeepUpdate(patch) ==
  /\ requests < MaxRequests
  /\ last.op = "init"
  /\ requests' = requests + 1
  /\ last' = [op |-> "deep_update_dict", target |-> last.target, patch |-> patch,
              result |-> deep_update_dict(last.target, patch, {}, <<>>)]
  /\ UNCHANGED <<config, skip, threads, merge, calls>>

InitMerge ==
  /\ config = NoRows
  /\ requests = MaxRequests - 1
  /\ \E target \in MergeTrees :
       last = [op |-> "init", target |-> target, patch |-> EmptyObj, result |-> target]
  /\ skip = NoSkip
  /\ threads = NoThreads
  /\ merge = NoMerge
  /\ calls = NoCalls

NextMerge == \E patch \in MergeTrees : DeepUpdate(patch)

SpecMerge == InitMerge /\ [][NextMerge]_vars

\* result is the merge of patch into target as the documentation states it.
RECURSIVE IsMergeOf(_, _, _)
IsMergeOf(result, target, patch) ==
  /\ IsDict(result)
  /\ DOMAIN result.v = (DOMAIN target.v) \cup (DOMAIN patch.v)
  /\ \A key \in DOMAIN result.v :
       IF key \notin DOMAIN patch.v THEN result.v[key] = target.v[key]
       ELSE IF key \in DOMAIN target.v /\ IsDict(target.v[key]) /\ IsDict(patch.v[key])
            THEN IsMergeOf(result.v[key], target.v[key], patch.v[key])
            ELSE result.v[key] = patch.v[key]

\* C21 (deep-merge semantics): on a tree-shaped target and patch,
\* deep_update_dict leaves the target equal to the reference merge: under a
\* key of both whose two values are objects the values are merged recursively,
\* under every other key of the patch the patch's value replaces the target's
\* (a list as a whole), keys the patch lacks keep their values, and the cycle
\* guard skips no key of the patch.
C21_DeepMerge ==
  last.op = "deep_update_dict" => IsMergeOf(last.result, last.target, last.patch)

\* A merge that recursed twice, replaced a list by another list and kept a
\* key the patch lacks.
C21_Witness ==
  /\ last.op = "deep_update_dict"
  /\ \E k1, k2 \in MergeKeys :
       /\ k1 \in DOMAIN last.target.v /\ k1 \in DOMAIN last.patch.v
       /\ IsDict(last.target.v[k1]) /\ IsDict(last.patch.v[k1])
       /\ k2 \in DOMAIN last.target.v[k1].v /\ k2 \in DOMAIN last.patch.v[k1].v
       /\ IsDict(last.target.v[k1].v[k2]) /\ IsDict(last.patch.v[k1].v[k2])
       /\ \E k3 \in DOMAIN last.patch.v[k1].v[k2].v :
            /\ k3 \in DOMAIN last.target.v[k1].v[k2].v
            /\ IsList(last.target.v[k1].v[k2].v[k3])
            /\ IsList(last.patch.v[k1].v[k2].v[k3])
            /\ last.target.v[k1].v[k2].v[k3] # last.patch.v[k1].v[k2].v[k3]
       /\ DOMAIN last.target.v[k1].v[k2].v # DOMAIN last.patch.v[k1].v[k2].v

\* ---------------------------------------- deep_update_dict on shared objects
\* The identities of the dict objects.
HeapIds == {1, 2, 3}

Ref(id) == [k |-> "ref", v |-> id]
IsRef(x) == x.k = "ref"

\* The values under the keys of a dict object: a scalar or a dict object.
HeapValues == {Num(1)} \cup {Ref(id) : id \in HeapIds}

\* A dict object: its keys in insertion order and the values under them.
DictObjects ==
  UNION {{[order |-> order, at |-> at] : at \in [Range(order) -> HeapValues]} :
         order \in {<<>>, <<"apps">>, <<"blog">>, <<"apps", "blog">>}}

\* d1[key] = value
SetItem(object, key, value) ==
  [order |-> IF key \in DOMAIN object.at THEN object.order
             ELSE Append(object.order, key),
   at |-> [k \in (DOMAIN object.at) \cup {key} |->
             IF k = key THEN value ELSE object.at[k]]]

\* The frame of a call that has passed the seen test: the loop
\* for key, value in d2.items() with its iterator at position i, used being
\* the size of d2 when the iterator was made.
Frame(heap, d1, d2) ==
  [d1 |-> d1, d2 |-> d2, i |-> 1, used |-> Len(heap[d2].order)]

\* deep_update_dict(target, patch) is called with seen = None.
CallMerge(target, patch) ==
  /\ merge.pc = "idle"
  /\ merge.heap # <<>>
  /\ merge' = [merge EXCEPT !.pc = "loop", !.seen = {target},
                            !.entered = <<target>>,
                            !.stack = <<Frame(merge.heap, target, patch)>>]
  /\ UNCHANGED <<config, requests, last, skip, threads, calls>>

\* The steps a call can take at most when every object is entered once.
StepBound == Cardinality(HeapIds) * 3

\* One step of the loop of the innermost call: the iterator raises when the
\* size of d2 has changed, ends the loop when it is exhausted, and otherwise
\* yields the next item, for which the body recurses (the callee returns at
\* once when its d1 is in seen) or assigns.
MergeStep ==
  LET f == Last(merge.stack)
      rest == ButLast(merge.stack)
      o1 == merge.heap[f.d1]
      o2 == merge.heap[f.d2]
      key == o2.order[f.i]
      value == o2.at[key]
      advanced == [f EXCEPT !.i = f.i + 1]
  IN /\ merge.pc = "loop"
     /\ merge.steps <= StepBound
     /\ merge' =
          IF Len(o2.order) # f.used
          THEN [merge EXCEPT !.pc = "done", !.raised = TRUE, !.stack = <<>>,
                             !.steps = merge.steps + 1]
          ELSE IF f.i > Len(o2.order)
          THEN [merge EXCEPT !.stack = rest, !.steps = merge.steps + 1,
                             !.pc = IF rest = <<>> THEN "done" ELSE "loop"]
          ELSE IF IsRef(value) /\ key \in DOMAIN o1.at /\ IsRef(o1.at[key])
          THEN IF o1.at[key].v \in merge.seen
               THEN [merge EXCEPT !.stack = Append(rest, advanced),
                                  !.steps = merge.steps + 1]
               ELSE [merge EXCEPT
                       !.seen = merge.seen \cup {o1.at[key].v},
                       !.entered = Append(merge.entered, o1.at[key].v),
                       !.stack = Append(Append(rest, advanced),
                                        Frame(merge.heap, o1.at[key].v, value.v)),
                       !.steps = merge.steps + 1]
          ELSE [merge EXCEPT !.heap[f.d1] = SetItem(o1, key, value),
                             !.stack = Append(rest, advanced),
                             !.steps = merge.steps + 1]
     /\ UNCHANGED <<config, requests, last, skip, threads, calls>>

\* Any objects, with any references among them.
InitHeap ==
  /\ config = NoRows
  /\ requests = 0
  /\ last = Request("init", Owner, <<>>, <<>>, ShortCircuit(NoRows))
  /\ skip = NoSkip
  /\ threads = NoThreads
  /\ \E heap \in [HeapIds -> DictObjects] : merge = [NoMerge EXCEPT !.heap = heap]
  /\ calls = NoCalls

\* The target is object 1; the patch is the target itself or another object.
NextHeap ==
  \/ \E patch \in {1, 2} : CallMerge(1, patch)
  \/ MergeStep

SpecHeap == InitHeap /\ [][NextHeap]_vars

\* C22 (deep merge terminates on cyclic input): for every target and patch,
\* also when the target contains itself, the patch contains itself, or both,
\* a call of deep_update_dict ends within the steps of entering every object
\* once, does not raise, and enters no object of the target a second time.
C22_TerminatesOnCycles ==
  /\ ~merge.raised
  /\ merge.steps <= StepBound
  /\ \A i, j \in DOMAIN merge.entered :
       merge.entered[i] = merge.entered[j] => i = j

\* ------------------------------------------- one call of a wrapped method
\* The subclass steps from FlexListAdmin (from FlexListAdminSite, whose own
\* class is step 1) down to the class of the instance.
ClassDepths == {1, 2, 3}

\* How a class defines the method in its body: not at all, with a body that
\* calls super(), or with a body that returns a list of its own.
OwnKinds == {"none", "super", "fixed"}

Function(fn, k) == [fn |-> fn, k |-> k]

\* What the attribute get_list_display (get_app_list) of class k is.  Every
\* subclass of FlexListAdmin gets the wrapper of its __init_subclass__;
\* FlexListAdminSite defines the guarded method and its subclasses inherit or
\* override it.  Class 0 is ModelAdmin (AdminSite).
RECURSIVE LiveMethod(_, _, _)
LiveMethod(op, k, own) ==
  IF k = 0 THEN Function("base", 0)
  ELSE IF op = "get_list_display" \/ k = 1 THEN Function("wrapped", k)
  ELSE IF own[k] # "none" THEN Function("own", k)
  ELSE LiveMethod(op, k - 1, own)

\* What the wrapper of class k calls when the skip flag is set:
\* original_get_list_display = cls.get_list_display as it was when the class
\* was made, resp. super().get_app_list of FlexListAdminSite.
OriginalMethod(op, k, own) ==
  IF op = "get_app_list" THEN Function("base", 0)
  ELSE IF own[k] # "none" THEN Function("own", k)
  ELSE LiveMethod(op, k - 1, own)

\* Variant: the reconciler asks the instance for get_list_display.
SavedOriginal_Live(op, depth, own) == LiveMethod(op, depth, own)

\* What the reconciler calls for the authoritative list:
\* model_admin._daf_original_get_list_display, the attribute of the class of
\* the instance, resp. admin_site._daf_original_get_app_list, bound in __init__.
SavedOriginal(op, depth, own) ==
  IF op = "get_app_list" THEN Function("base", 0)
  ELSE OriginalMethod(op, depth, own)

\* The frames one outermost call can enter at most.
FramesBound == 2 * 3 + 3

EnterFrame(function) ==
  /\ Len(calls.trace) <= FramesBound
  /\ calls' = [calls EXCEPT !.stack = Append(ButLast(calls.stack), function),
                            !.trace = Append(calls.trace, function)]

ReturnFrame(ret) ==
  calls' = [calls EXCEPT !.stack = ButLast(calls.stack), !.ret = ret,
                         !.pc = IF Len(calls.stack) = 1 THEN "done" ELSE "run"]

Top == Last(calls.stack)

\* The outermost call: instance.get_list_display(request), resp.
\* site.get_app_list(request, app_label).
CallWrapped(op, depth, own) ==
  /\ calls.pc = "idle"
  /\ calls' = [NoCalls EXCEPT !.pc = "run", !.op = op, !.depth = depth, !.own = own,
                 !.stack = <<LiveMethod(op, depth, own)>>,
                 !.trace = <<LiveMethod(op, depth, own)>>]
  /\ UNCHANGED <<config, requests, last, skip, threads, merge>>

\* if getattr(self, "_daf_skip_custom_...", False): return original(...)
\* self._daf_skip_custom_... = True; try: return service.get_custom_...(...)
WrappedTest ==
  /\ calls.pc = "run" /\ calls.ret = "none" /\ Top.fn = "wrapped"
  /\ IF skip[calls.op]
     THEN /\ EnterFrame(OriginalMethod(calls.op, Top.k, calls.own))
          /\ UNCHANGED skip
     ELSE /\ Len(calls.trace) <= FramesBound
          /\ skip' = [skip EXCEPT ![calls.op] = TRUE]
          /\ calls' = [calls EXCEPT
               !.stack = ButLast(calls.stack)
                           \o <<Function("finally", Top.k), Function("service", 0)>>,
               !.trace = Append(calls.trace, Function("service", 0))]
  /\ UNCHANGED <<config, requests, last, threads, merge>>

\* The reconciler resolves the authoritative list through the saved
\* reference, or raises before that (no such model, no registered admin).
ServiceCall(raises) ==
  /\ calls.pc = "run" /\ calls.ret = "none" /\ Top.fn = "service"
  /\ IF raises THEN ReturnFrame("raise")
     ELSE /\ Len(calls.trace) <= FramesBound
          /\ calls' = [calls EXCEPT
               !.stack = ButLast(calls.stack)
                           \o <<Function("reconcile", 0),
                                SavedOriginal(calls.op, calls.depth, calls.own)>>,
               !.trace = Append(calls.trace,
                                SavedOriginal(calls.op, calls.depth, calls.own))]
  /\ UNCHANGED <<config, requests, last, skip, threads, merge>>

\* The body a class defines: return super().get_list_display(request), or a
\* list of its own.
OwnBody ==
  /\ calls.pc = "run" /\ calls.ret = "none" /\ Top.fn = "own"
  /\ IF calls.own[Top.k] = "super"
     THEN EnterFrame(LiveMethod(calls.op, Top.k - 1, calls.own))
     ELSE ReturnFrame("list")
  /\ UNCHANGED <<config, requests, last, skip, threads, merge>>

\* ModelAdmin.get_list_display, resp. AdminSite.get_app_list.
BaseReturn ==
  /\ calls.pc = "run" /\ calls.ret = "none" /\ Top.fn = "base"
  /\ ReturnFrame("list")
  /\ UNCHANGED <<config, requests, last, skip, threads, merge>>

\* The reconciler has the authoritative list and merges the stored list into
\* it; reading the stored list may raise.
ReconcileReturn(raises) ==
  /\ calls.pc = "run" /\ calls.ret # "none" /\ Top.fn = "reconcile"
  /\ ReturnFrame(IF raises THEN "raise" ELSE calls.ret)
  /\ UNCHANGED <<config, requests, last, skip, threads, merge>>

\* finally: self._daf_skip_custom_... = False
Finally ==
  /\ calls.pc = "run" /\ calls.ret # "none" /\ Top.fn = "finally"
  /\ skip' = [skip EXCEPT ![calls.op] = FALSE]
  /\ ReturnFrame(calls.ret)
  /\ UNCHANGED <<config, requests, last, threads, merge>>

\* The class bodies down to the class of the instance.
OwnBodies(op, depth) ==
  {own \in [1..depth -> OwnKinds] :
     op = "get_app_list" => own[1] = "none"}

NextGuard ==
  \/ \E op \in WrappedOps, depth \in ClassDepths :
       \E own \in OwnBodies(op, depth) : CallWrapped(op, depth, own)
  \/ WrappedTest
  \/ \E raises \in BOOLEAN : ServiceCall(raises)
  \/ OwnBody
  \/ BaseReturn
  \/ \E raises \in BOOLEAN : ReconcileReturn(raises)
  \/ Finally

SpecGuard == Init /\ [][NextGuard]_vars

\* The entries of the function in the call so far.
EntriesOf(function) ==
  Cardinality({i \in DOMAIN calls.trace : calls.trace[i] = function})

\* C23 (re-entrancy guard): one outermost call of the overridden
\* get_list_display on an instance of a FlexListAdmin subclass, also of a
\* subclass of a subclass, or of get_app_list on a FlexListAdminSite, enters
\* the reconciler at most once, never enters the overridden method of the
\* instance again to get the authoritative list, ends within the frames of
\* the class chain, and has left the skip flag False when it has returned or
\* raised.
C23_ReentrancyGuard ==
  /\ EntriesOf(Function("service", 0)) <= 1
  /\ calls.pc # "idle" =>
       EntriesOf(LiveMethod(calls.op, calls.depth, calls.own)) = 1
  /\ Len(calls.trace) <= FramesBound
  /\ calls.pc = "done" => (~skip[calls.op] /\ calls.ret # "none")

\* A call on an instance of a subclass of a subclass has gone through the
\* reconciler and the parent's wrapper and has raised.
C23_Witness ==
  /\ calls.pc = "done" /\ calls.ret = "raise" /\ calls.depth >= 2
  /\ calls.op = "get_list_display"
  /\ EntriesOf(Function("service", 0)) = 1
  /\ EntriesOf(Function("wrapped", calls.depth - 1)) = 1

\* C24 (updates never fail on malformed stored data): whatever JSON value the
\* stored document holds, also a non-object at the root or at a segment of
\* the patched path, an update with well-formed entries raises no error, and
\* the list then stored at the path is the list of the written entries.
C24_UpdatesNeverFail ==
  (/\ last.op \in UpdateOps
   /\ \A i \in DOMAIN last.fields : WellTyped(last.fields[i])) =>
     (~last.raised /\ StoredFields = last.fields)

\* The reads a page can make of the three domains.
PageReads ==
  {ListDisplaySource("post", list_display) : list_display \in ListDisplays}
    \cup {AppListSource(app_list) : app_list \in AppLists}
    \cup {ModelListSource(app_list, app_label) :
            app_list \in AppLists, app_label \in RequestedApps}

\* C25 (no update can poison the store): starting from the empty document,
\* after any sequence of updates with arbitrary JSON payloads every read
\* operation on every path returns a list, it does not raise.
C25_NoPoison ==
  \A source \in PageReads :
    ~ReadConfig(config, Owner, source).raised

\* The stored document of a user, an absent row counting as the empty one.
DocumentOf(table, user) ==
  IF user \notin Users \/ table[user] = NoRow THEN EmptyObj ELSE table[user]

\* C26 (failed updates change nothing): when an update operation ends with
\* an error, as update_list_fields does for a model that has no admin class,
\* the stored document of the user is the same as before the call.
C26_FailedUpdatesChangeNothing ==
  [][(last'.op \in UpdateOps /\ last'.raised) =>
       DocumentOf(config', last'.user) = DocumentOf(config, last'.user)]_vars

\* The authoritative map of a source: its names and descriptions in order.
SourceA(source) ==
  CASE source.domain = "list_display" -> get_original_list_display_fields(source.host)
    [] source.domain = "app_list" -> Authoritative(AppLookup(source.host))
    [] OTHER -> ModelAuthoritative(source.host)

SourceNames(source) == {Str(SourceA(source)[i].key) : i \in DOMAIN SourceA(source)}

\* The stored entries whose names the source lists, in stored order.
KeptFor(stored, source) ==
  LET Back(field) == field.name \in SourceNames(source) IN SeqFilter(Back, stored)

\* C27 (stale entries are hidden, not forgotten): a read made while an item
\* with a stored entry is missing from the authoritative source does not
\* return the item, and a later read of the same path, made when the item is
\* back and no update has come in between, returns it at its stored relative
\* position with its stored visibility.
C27_HiddenNotForgotten ==
  [][(last'.op \in ReadOps /\ ~last'.raised /\ last'.user \in Users) =>
       LET stored == get_config_list_fields(DocumentOf(config, last'.user), last'.path)
           absent == {stored[i].name : i \in DOMAIN stored}
                       \ {Str(last'.A[i].key) : i \in DOMAIN last'.A}
       IN /\ \A i \in DOMAIN last'.out : last'.out[i].v["name"] \notin absent
          /\ \A source \in PageReads :
               source.path = last'.path =>
                 LET later == ReadConfig(config', last'.user, source)
                     kept == KeptFor(stored, source)
                 IN ~later.raised =>
                      /\ Len(later.out) >= Len(kept)
                      /\ \A i \in DOMAIN kept :
                           /\ later.out[i].v["name"] = kept[i].name
                           /\ later.out[i].v["visible"] = kept[i].visible]_vars

\* A read was made while a stored hidden item was missing, and a later read
\* with the item back returns it hidden, ahead of another item.
C27_Witness ==
  /\ last.op \in ReadOps /\ ~last.raised /\ last.user \in Users
  /\ \E source \in PageReads :
       /\ source.path = last.path
       /\ LET kept == KeptFor(StoredFields, source)
              later == ReadConfig(config, last.user, source)
          IN /\ ~later.raised /\ Len(later.out) >= 2 /\ kept # <<>>
             /\ kept[1].name \notin AuthNames
             /\ kept[1].visible = Bool(FALSE)
             /\ later.out[1].v["name"] = kept[1].name

\* The app of the label in the app list the host answered, if it is there.
RegisteredApp(app_list, app_label) == AppListFor(app_list, app_label)

\* C28 (app visibility also filters the single-app request): when the stored
\* app_list holds an entry for app X with visible = false and X is registered
\* with models, get_custom_app_list(request, app_label = X) returns the empty
\* list, while get_model_list(request, X) returns the merged model list of X.
C28_HiddenAppSingleRequest ==
  (/\ last.op = "get_custom_app_list" /\ ~last.raised /\ last.user \in Users
   /\ RegisteredApp(last.app_list, last.app_label) # <<>>
   /\ \E i \in DOMAIN StoredFields :
        /\ StoredFields[i].name = Str(last.app_label)
        /\ StoredFields[i].visible = Bool(FALSE)) =>
     LET models == view_get_model_list(config, last.user, last.app_list, last.app_label)
         original == RegisteredApp(last.app_list, last.app_label)[1].models
     IN /\ last.out = <<>>
        /\ ~models.raised =>
             {models.out[i].v["name"] : i \in DOMAIN models.out}
               = {Str(original[i].object_name) : i \in DOMAIN original}

\* Two requests served on a table without rows.
InitFresh ==
  /\ config = NoRows
  /\ requests = MaxRequests - 2
  /\ last = Request("init", Owner, <<>>, <<>>, ShortCircuit(NoRows))
  /\ skip = NoSkip
  /\ threads = NoThreads
  /\ merge = NoMerge
  /\ calls = NoCalls

\* The updates of the three domains with any posted data, the host listing
\* all its items.
NextFresh ==
  \/ \E model_name \in {"post", "tag"}, data \in DataFor("title", "author") :
       UpdateListFields(Owner, model_name, <<"title", "author">>, data)
  \/ \E data \in DataFor("blog", "users") :
       UpdateAppList(Owner, <<BlogApp(<<Post, Tag>>), UsersApp>>, data)
  \/ \E app_label \in {"blog", "users"} :
       \E data \in DataFor(ModelNames(app_label)[1], ModelNames(app_label)[2]) :
         UpdateModelList(Owner, <<BlogApp(<<Post, Tag>>), UsersApp>>, app_label, data)

SpecFresh == InitFresh /\ [][NextFresh]_vars

\* A list of objects with exactly the keys name, description and visible.
IsEntryList(x) ==
  IsList(x) /\ \A i \in DOMAIN x.v : IsDict(x.v[i]) /\ DOMAIN x.v[i].v = FieldKeys

\* The fixed layout of the stored document.
HasLayout(document) ==
  /\ IsDict(document)
  /\ DOMAIN document.v \subseteq {"app_list", "apps"}
  /\ "app_list" \in DOMAIN document.v => IsEntryList(document.v["app_list"])
  /\ "apps" \in DOMAIN document.v =>
       /\ IsDict(document.v["apps"])
       /\ \A label \in DOMAIN document.v["apps"].v :
            LET app == document.v["apps"].v[label]
            IN /\ IsDict(app)
               /\ DOMAIN app.v \subseteq {"model_list", "models"}
               /\ "model_list" \in DOMAIN app.v => IsEntryList(app.v["model_list"])
               /\ "models" \in DOMAIN app.v =>
                    /\ IsDict(app.v["models"])
                    /\ \A name \in DOMAIN app.v["models"].v :
                         LET model == app.v["models"].v[name]
                         IN /\ IsDict(model)
                            /\ DOMAIN model.v = {"list_display"}
                            /\ IsEntryList(model.v["list_display"])

\* C29 (stored document shape): starting from the empty document, after any
\* sequence of updates of the three domains the document has the fixed
\* layout: app_list and apps at the root, model_list and models under an app
\* label, list_display alone under a model name, and every list made of
\* objects with exactly the keys name, description and visible.
C29_DocumentShape == \A user \in Users : HasLayout(DocumentOf(config, user))

\* Two updates have written a list display and a model list with entries.
C29_Witness ==
  LET document == DocumentOf(config, Owner)
  IN /\ "apps" \in DOMAIN document.v
     /\ "blog" \in DOMAIN document.v["apps"].v
     /\ DOMAIN document.v["apps"].v["blog"].v = {"model_list", "models"}
     /\ document.v["apps"].v["blog"].v["model_list"].v # <<>>
     /\ "post" \in DOMAIN document.v["apps"].v["blog"].v["models"].v
     /\ document.v["apps"].v["blog"].v["models"].v["post"].v["list_display"].v # <<>>

\* The read sources of the request just served: the same path and the same
\* authoritative map.
SourcesOfLast ==
  {source \in PageReads : source.path = last.path /\ SourceA(source) = last.A}

\* The update of the domain given the list a read returned, as the view
\* hands it over: the posted JSON list turned into entries.
PostedBack(table, user, source, out) ==
  UpdateConfig(table, user, make_list_fields_from_data(Lst(out)), source)

\* C30 (posting back a read is a no-op for readers): when a read operation of
\* a signed-in user has returned a list, the update operation of the same
\* domain called with exactly that list, against the same authoritative
\* source, returns the same list, and a read made after it returns the same
\* list too.
C30_PostBackIsNoOp ==
  (last.op \in ReadOps /\ ~last.raised /\ last.user \in Users) =>
    \A source \in SourcesOfLast :
      LET posted == PostedBack(config, last.user, source, last.out)
          later == ReadConfig(posted.table, last.user, source)
      IN /\ ~posted.raised /\ posted.saved /\ posted.out = last.out
         /\ ~later.raised /\ later.out = last.out

====
